---- MODULE Spec2Model ----
(***************************************************************************)
(* The agent conversation loop of bibble (src/src/mcp/agent.ts) on top of  *)
(* the two provider stream normalizers (src/src/llm/client.ts for the      *)
(* OpenAI-style wire format, src/src/llm/anthropic.ts for the Anthropic    *)
(* one).                                                                   *)
(*                                                                         *)
(* Text is a sequence of tokens, so that string concatenation is \o and    *)
(* the empty string is << >>.  A tool call id "call_n" is the number n,    *)
(* with 0 for a missing id.  An absent optional field is Undefined; an     *)
(* absent toolCalls list is << >> (the code never stores an empty list).   *)
(***************************************************************************)
EXTENDS Integers, Sequences, FiniteSets, TLC

\* ------------------------------------------------------------------ bounds
\* chat() calls made on the Agent in one run
MaxCalls == 2
\* LLM requests issued in one run of Spec
MaxRequests == 3
\* wire events the response streams deliver in one run of Spec
MaxEvents == 3
\* LLM requests issued in one run of SpecLong
MaxLongRequests == 12

\* --------------------------------------------------------------- constants
MAX_NUM_TURNS == 10
\* the attempts AnthropicClient.chatCompletion makes at one request
maxRetries == 3

\* the chat() calls that can be in flight at once
Calls == 1..MaxCalls
Undefined == "undefined"
NoCall == [id |-> 0, name |-> Undefined, args |-> << >>]

\* the two control-flow tools of the Agent
taskCompletionTool == "task_complete"
askQuestionTool == "ask_question"
exitLoopTools == <<taskCompletionTool, askQuestionTool>>
ExitLoopToolNames == {exitLoopTools[i] : i \in 1..Len(exitLoopTools)}

\* the condition conversationLoop treats as a cancellation
AbortError == "AbortError"

VARIABLES
  provider,       \* LlmClient.provider
  cfgGuidelines,  \* Config.getUserGuidelines(), << >> when there are none
  optGuidelines,  \* AgentOptions.userGuidelines, << >> when there are none
  messages,       \* Agent.messages
  frame,          \* per chat() call: the locals of conversationLoop/processTurn
  latest,         \* the chat() call that appended the last User message, 0 after a reset
  used,           \* the chat() calls, LLM requests and wire events of the run so far
  config,         \* the Config singleton the LlmClient reads
  client,         \* the LlmClient: whether it was constructed and which clients it holds
  request,        \* the parameters of the last request chatCompletion built
  held            \* the list object a caller obtained from getConversation()

llmVars == <<provider, config, client, request>>
vars == <<provider, cfgGuidelines, optGuidelines, messages, frame, latest, used,
          config, client, request, held>>

\* ---------------------------------------------------------------- messages
SystemMsg(content) ==
  [role |-> "system", content |-> content, toolCalls |-> << >>,
   toolName |-> Undefined, toolCallId |-> 0]

UserMsg(content) ==
  [role |-> "user", content |-> content, toolCalls |-> << >>,
   toolName |-> Undefined, toolCallId |-> 0]

AssistantMsg(content, toolCalls) ==
  [role |-> "assistant", content |-> content, toolCalls |-> toolCalls,
   toolName |-> Undefined, toolCallId |-> 0]

ToolMsg(content, toolName, toolCallId) ==
  [role |-> "tool", content |-> content, toolCalls |-> << >>,
   toolName |-> toolName, toolCallId |-> toolCallId]

DEFAULT_SYSTEM_PROMPT == <<"You are an agent">>

GuidelinesMsg(g) == SystemMsg(<<"Additional user guidelines: ">> \o g)

\* Agent.constructor: the history after construction
ConstructorMessages(opt, cfg) ==
  LET userGuidelines == IF opt # << >> THEN opt ELSE cfg
  IN  <<SystemMsg(DEFAULT_SYSTEM_PROMPT)>> \o
      (IF userGuidelines # << >> THEN <<GuidelinesMsg(userGuidelines)>> ELSE << >>)

\* Agent.resetConversation: the history after a reset
ResetMessages(cfg) ==
  <<SystemMsg(DEFAULT_SYSTEM_PROMPT)>> \o
  (IF cfg # << >> THEN <<GuidelinesMsg(cfg)>> ELSE << >>)

\* ------------------------------------------------------------ stream chunks
\* tool arguments: a decoded JSON value, or a raw string
ArgObject(text) == [kind |-> "object", text |-> text]
ArgString(text) == [kind |-> "string", text |-> text]

NoToolCall == [id |-> 0, name |-> "", args |-> ArgString(<< >>)]

TextChunk(text) == [type |-> "text", text |-> text, toolCall |-> NoToolCall]
ToolCallChunk(toolCall) == [type |-> "tool_call", text |-> << >>, toolCall |-> toolCall]

\* the argument texts JSON.parse accepts (over the fragments "{" and "}")
JsonTexts == {<<"{", "}">>}

\* arguments that do not parse are replaced by an empty object
ParseArgsOrEmpty(text) ==
  IF text \in JsonTexts THEN ArgObject(text) ELSE ArgObject(<<"{", "}">>)

\* JSON.parse(activeToolCall.args) with the fallback to the raw string
ParseArgs(text) ==
  IF text \in JsonTexts THEN ArgObject(text) ELSE ArgString(text)

\* JSON.stringify of decoded arguments, the string itself for a raw string
DisplayArgs(args) == args.text

\* ------------------------------------------- OpenAI-style stream normalizer
\* one wire event: choices[0].delta (absent when delta is FALSE), its content,
\* its tool_calls (each [index, id, name, arguments]; 0, "" and << >> for a
\* missing id, name and arguments) and choices[0].finish_reason
OpenAIEvent(content, tool_calls, finish_reason) ==
  [delta |-> TRUE, content |-> content, tool_calls |-> tool_calls,
   finish_reason |-> finish_reason]

ToolCallDelta(index, id, name, arguments) ==
  [index |-> index, id |-> id, name |-> name, arguments |-> arguments]

\* activeToolCall after the "Handle tool calls" block
OpenAIBuffer(active, event) ==
  IF Len(event.tool_calls) = 0 THEN active
  ELSE LET toolCall == event.tool_calls[1]
           opened == IF toolCall.index = 0 /\ toolCall.id # 0
                     THEN [id |-> toolCall.id, name |-> toolCall.name,
                           args |-> toolCall.arguments]
                     ELSE active
       IN  IF opened = NoCall THEN NoCall
           ELSE [opened EXCEPT
                   !.name = IF toolCall.name # "" THEN toolCall.name ELSE @,
                   !.args = @ \o toolCall.arguments]

\* whether the event closes the buffered tool call
OpenAIFinishes(active, event) ==
  /\ event.delta
  /\ event.finish_reason = "tool_calls"
  /\ OpenAIBuffer(active, event) # NoCall

\* the chunks one wire event makes the normalizer yield, in order
OpenAIChunks(active, event) ==
  IF ~event.delta THEN << >>
  ELSE (IF event.content # << >> THEN <<TextChunk(event.content)>> ELSE << >>) \o
       (IF OpenAIFinishes(active, event)
        THEN LET buffered == OpenAIBuffer(active, event)
             IN  <<ToolCallChunk([id |-> buffered.id, name |-> buffered.name,
                                  args |-> ParseArgs(buffered.args)])>>
        ELSE << >>)

\* activeToolCall where the normalizer is suspended next: awaiting the next
\* wire event, or in the yield of the tool_call chunk (it is reset to null
\* when the consumer resumes it)
OpenAIActive(active, event) ==
  IF ~event.delta THEN active ELSE OpenAIBuffer(active, event)

\* ---------------------------------------- Anthropic-style stream normalizer
\* content_block of a content_block_start event; input is the block's own
\* input, tool_use_input the input nested under content_block.tool_use
NoBlock == [type |-> "", id |-> 0, name |-> "", tool_use_input |-> << >>]

AnthropicEvent(type, text, content_block, content) ==
  [type |-> type, text |-> text, content_block |-> content_block, content |-> content,
   partial_json |-> << >>]

\* a content_block_delta carrying a fragment of a tool_use block's input JSON
\* (delta.partial_json; it has no delta.text)
AnthropicInputDelta(partial_json) ==
  [type |-> "content_block_delta", text |-> << >>, content_block |-> NoBlock,
   content |-> << >>, partial_json |-> partial_json]

\* what the provider has put on the wire for the tool call it is streaming:
\* its id and name, the argument text delivered so far, and whether the call
\* is still open
NoWire == [delivered |-> << >>, open |-> FALSE, id |-> 0, name |-> ""]

\* the OpenAI-style wire after an event: a delta with index 0 and an id opens
\* the tool call of slot 0, later deltas of slot 0 carry its name and further
\* argument fragments, and the event with finish_reason "tool_calls" closes
\* it; deltas of other slots belong to other tool calls
OpenAIWire(wire, event) ==
  LET own == Len(event.tool_calls) > 0 /\ event.tool_calls[1].index = 0
      fragment == IF own THEN event.tool_calls[1].arguments ELSE << >>
      opens == own /\ event.tool_calls[1].id # 0
      named == own /\ event.tool_calls[1].name # ""
      delivered == IF opens THEN fragment
                   ELSE IF wire.open THEN wire.delivered \o fragment
                   ELSE wire.delivered
  IN  [delivered |-> delivered,
       open |-> (opens \/ wire.open) /\ event.finish_reason # "tool_calls",
       id |-> IF opens THEN event.tool_calls[1].id ELSE wire.id,
       name |-> IF named /\ (opens \/ wire.open) THEN event.tool_calls[1].name
                ELSE IF opens THEN "" ELSE wire.name]

\* the Anthropic-style wire after an event: content_block_start opens a
\* tool_use block, input deltas carry its input JSON and content_block_stop
\* closes it
AnthropicWire(wire, event) ==
  IF event.type = "content_block_start" /\ event.content_block.type = "tool_use"
  THEN [delivered |-> event.content_block.tool_use_input, open |-> TRUE,
        id |-> event.content_block.id, name |-> event.content_block.name]
  ELSE IF event.type = "content_block_delta" /\ wire.open
  THEN [wire EXCEPT !.delivered = @ \o event.partial_json]
  ELSE IF event.type = "content_block_stop"
  THEN [wire EXCEPT !.open = FALSE]
  ELSE wire

\* the first tool_use entry of a message_delta's delta.content, 0 when none
FirstToolUse(content) ==
  LET hits == {i \in 1..Len(content) :
                 content[i].type = "tool_use" /\ content[i].tool_use}
  IN  IF hits = {} THEN 0 ELSE CHOOSE i \in hits : \A j \in hits : i <= j

\* AnthropicClient.processAnthropicStreamChunk; << >> stands for null and
\* random for the id Math.random() produces
AnthropicChunks(event, random) ==
  IF event.type = "content_block_delta" /\ event.text # << >>
  THEN <<TextChunk(event.text)>>
  ELSE IF event.type = "content_block_start" /\ event.content_block.type = "tool_use"
  THEN LET toolUse == event.content_block
       IN  <<ToolCallChunk(
              [id |-> IF toolUse.id # 0 THEN toolUse.id ELSE random,
               name |-> toolUse.name,
               args |-> IF toolUse.tool_use_input # << >>
                        THEN ArgObject(toolUse.tool_use_input)
                        ELSE ArgObject(<<"{", "}">>)])>>
  ELSE IF event.type = "message_delta" /\ FirstToolUse(event.content) # 0
  THEN LET use == event.content[FirstToolUse(event.content)]
       IN  <<ToolCallChunk(
              [id |-> IF use.id # 0 THEN use.id ELSE random,
               name |-> use.name,
               args |-> IF use.input # << >> THEN ArgObject(use.input)
                        ELSE ArgObject(<<"{", "}">>)])>>
  ELSE << >>

\* the error text processStreamResponse yields when the response stream throws
AnthropicErrorText(message) ==
  IF message = "overloaded"
  THEN <<"Error: Anthropic API is currently overloaded">>
  ELSE <<"Error from Anthropic API: ", message>>

\* the content blocks of an Anthropic message; 0, "" and NoInput for the
\* fields a block does not have
NoInput == [kind |-> "", text |-> << >>]
TextBlock(text) ==
  [type |-> "text", text |-> text, id |-> 0, name |-> "", input |-> NoInput]
ToolResultBlock(tool_use_id, content) ==
  [type |-> "tool_result", text |-> content, id |-> tool_use_id, name |-> "",
   input |-> NoInput]
ToolUseBlock(id, name, input) ==
  [type |-> "tool_use", text |-> << >>, id |-> id, name |-> name, input |-> input]

\* the conversion with Tool-role messages treated as regular messages
ConvertMessageNoToolResult(message) ==
  IF message.role = "assistant" /\ Len(message.toolCalls) > 0
  THEN [role |-> "assistant",
        content |-> (IF message.content # << >> THEN <<TextBlock(message.content)>>
                     ELSE << >>) \o
                    [j \in 1..Len(message.toolCalls) |->
                       ToolUseBlock(message.toolCalls[j].id, message.toolCalls[j].name,
                                    message.toolCalls[j].args)]]
  ELSE [role |-> IF message.role = "user" THEN "user" ELSE "assistant",
        content |-> <<TextBlock(message.content)>>]

\* convertToAnthropicMessages, lines 124-167: what one message that is not a
\* System message is converted to
ConvertMessage(message) ==
  IF /\ message.role = "tool"
     /\ message.toolName \notin {Undefined, ""}
     /\ message.toolCallId # 0
  THEN [role |-> "user",
        content |-> <<ToolResultBlock(message.toolCallId, message.content)>>]
  ELSE IF message.role = "assistant" /\ Len(message.toolCalls) > 0
  THEN [role |-> "assistant",
        content |-> (IF message.content # << >> THEN <<TextBlock(message.content)>>
                     ELSE << >>) \o
                    [j \in 1..Len(message.toolCalls) |->
                       ToolUseBlock(message.toolCalls[j].id, message.toolCalls[j].name,
                                    message.toolCalls[j].args)]]
  ELSE [role |-> IF message.role = "user" THEN "user" ELSE "assistant",
        content |-> <<TextBlock(message.content)>>]

\* AnthropicClient.convertToAnthropicMessages: the System messages are
\* skipped, the others converted in order
convertToAnthropicMessages(msgs) ==
  LET kept == SelectSeq(msgs, LAMBDA m : m.role # "system")
  IN  [i \in 1..Len(kept) |-> ConvertMessage(kept[i])]

\* the tokens String.trim removes
Whitespace == {"\n"}

\* String.trim
Trim(text) ==
  LET solid == {i \in 1..Len(text) : text[i] \notin Whitespace}
  IN  IF solid = {} THEN << >>
      ELSE SubSeq(text, CHOOSE i \in solid : \A j \in solid : i <= j,
                        CHOOSE i \in solid : \A j \in solid : j <= i)

\* AnthropicClient.chatCompletion, lines 254-269: the system field, the
\* contents of the System messages each followed by a newline, trimmed; << >>
\* when the field is left undefined
SystemField(msgs) ==
  LET systems == SelectSeq(msgs, LAMBDA m : m.role = "system")
      systemMessage[i \in 0..Len(systems)] ==
        IF i = 0 THEN << >>
        ELSE systemMessage[i - 1] \o systems[i].content \o <<"\n">>
  IN  Trim(systemMessage[Len(systems)])

\* ------------------------------------- the LlmClient and the requests it builds
\* an optional value: << >> when undefined, <<v>> otherwise.  A string that is
\* undefined or empty is "", a token count that is undefined or 0 is 0 (the
\* code tests both for truthiness only); temperatures are in tenths.
None == << >>
Some(v) == <<v>>
\* a || b
OrElse(a, b) == IF a = None \/ a = Some(0) THEN b ELSE a

\* String.toLowerCase over the characters model ids are made of
ToLowerCase(id) ==
  [i \in 1..Len(id) |-> IF id[i] = "O" THEN "o" ELSE IF id[i] = "G" THEN "g" ELSE id[i]]

Digits == {"0", "1", "2", "3", "4", "5", "6", "7", "8", "9"}

\* models.find(m => m.id.toLowerCase() === model.toLowerCase()): the index of
\* the first matching ModelConfig, 0 when there is none
FindModel(models, model) ==
  LET hits == {i \in 1..Len(models) : ToLowerCase(models[i].id) = ToLowerCase(model)}
  IN  IF hits = {} THEN 0 ELSE CHOOSE i \in hits : \A j \in hits : i <= j

\* processTurn, lines 207-226: the parameters the Agent hands to chatCompletion
ChatParams(model, models) ==
  LET i == FindModel(models, model)
      chatParams == [model |-> model, reasoningEffort |-> "", maxCompletionTokens |-> 0,
                     temperature |-> None, maxTokens |-> None]
  IN  IF i = 0 THEN chatParams
      ELSE IF models[i].isReasoningModel
      THEN [chatParams EXCEPT
              !.reasoningEffort = IF models[i].reasoningEffort # ""
                                  THEN models[i].reasoningEffort ELSE "medium",
              !.maxCompletionTokens = models[i].maxCompletionTokens]
      ELSE [chatParams EXCEPT !.temperature = models[i].temperature,
                              !.maxTokens = models[i].maxTokens]

\* the test with the pattern applied to the model id as it was given
isReasoningModelCaseSensitive(modelId, models) ==
  LET isOSeries == /\ Len(modelId) >= 2
                   /\ modelId[1] = "o"
                   /\ modelId[2] \in Digits
      i == FindModel(models, modelId)
  IN  isOSeries \/ (i # 0 /\ models[i].isReasoningModel)

\* LlmClient.isReasoningModel
isReasoningModel(modelId, models) ==
  LET normalizedModelId == ToLowerCase(modelId)
      isOSeries == /\ Len(normalizedModelId) >= 2
                   /\ normalizedModelId[1] = "o"
                   /\ normalizedModelId[2] \in Digits
      i == FindModel(models, modelId)
  IN  isOSeries \/ (i # 0 /\ models[i].isReasoningModel)

NoRequest ==
  [kind |-> "none", model |-> << >>, reasoning_effort |-> "", max_completion_tokens |-> 0,
   temperature |-> None, max_tokens |-> None, system |-> << >>, messages |-> << >>]

\* chatCompletion, lines 186-219: the OpenAI-style request parameters
OpenAIRequestParams(params, models) ==
  LET requestParams == [NoRequest EXCEPT !.kind = "openai", !.model = params.model]
  IN  IF isReasoningModel(params.model, models)
      THEN [requestParams EXCEPT
              !.reasoning_effort = IF params.reasoningEffort # ""
                                   THEN params.reasoningEffort ELSE "medium",
              !.max_completion_tokens = params.maxCompletionTokens]
      ELSE [requestParams EXCEPT !.temperature = params.temperature,
                                 !.max_tokens = params.maxTokens]

\* chatCompletion, lines 145-181, and AnthropicClient.chatCompletion, lines
\* 263-270: the Anthropic-style request parameters
AnthropicRequestParams(params, models) ==
  LET i == FindModel(models, params.model)
      cfgMaxTokens == IF i = 0 THEN None ELSE models[i].maxTokens
      cfgTemperature == IF i = 0 THEN None ELSE models[i].temperature
  IN  [NoRequest EXCEPT
         !.kind = "anthropic", !.model = params.model,
         !.max_tokens = OrElse(params.maxTokens, OrElse(cfgMaxTokens, Some(4096))),
         !.temperature = OrElse(params.temperature, OrElse(cfgTemperature, Some(7)))]

NoOptions == [provider |-> "", apiKey |-> "", baseURL |-> ""]

\* the LlmClient before its constructor has run; options are the options the
\* constructor was called with
NoClient ==
  [state |-> "new", options |-> NoOptions, openaiClient |-> FALSE,
   anthropicClient |-> FALSE, apiKey |-> "", error |-> ""]

\* the provider the constructor selects
SelectProvider(options, cfg) ==
  IF options.provider # "" THEN options.provider ELSE cfg.defaultProvider

\* the credential checks are deferred: a client is created with whatever key
\* is there
NewLlmClientUnchecked(options, cfg) ==
  LET p == SelectProvider(options, cfg)
  IN  [state |-> "constructed", options |-> options, openaiClient |-> p # "anthropic",
       anthropicClient |-> p = "anthropic", apiKey |-> options.apiKey, error |-> ""]

\* LlmClient.constructor, lines 27-96: the client it leaves, or the error it
\* throws
NewLlmClient(options, cfg) ==
  LET p == SelectProvider(options, cfg)
      Thrown(message) ==
        [NoClient EXCEPT !.state = "thrown", !.options = options, !.error = message]
      Built(openai, key) ==
        [state |-> "constructed", options |-> options, openaiClient |-> openai,
         anthropicClient |-> ~openai, apiKey |-> key, error |-> ""]
      Key(configured) == IF options.apiKey # "" THEN options.apiKey ELSE configured
  IN  IF p = "anthropic"
      THEN IF Key(cfg.anthropicApiKey) = ""
           THEN Thrown("Anthropic API key is required")
           ELSE Built(FALSE, Key(cfg.anthropicApiKey))
      ELSE IF p = "openaiCompatible"
      THEN LET baseURL == IF options.baseURL # "" THEN options.baseURL
                          ELSE cfg.compatibleBaseUrl
           IN  IF baseURL = ""
               THEN Thrown("Base URL for OpenAI-compatible endpoint is required")
               ELSE IF cfg.requiresApiKey
               THEN IF Key(cfg.compatibleApiKey) = ""
                    THEN Thrown("API key for OpenAI-compatible endpoint is required")
                    ELSE Built(TRUE, Key(cfg.compatibleApiKey))
               ELSE Built(TRUE, "dummy-key")
      ELSE IF Key(cfg.openaiApiKey) = ""
           THEN Thrown("OpenAI API key is required")
           ELSE Built(TRUE, Key(cfg.openaiApiKey))

\* chatCompletion, lines 143-231: the request built for the Agent's parameters,
\* or the error for a missing client
BuildRequest(p, cl, params, models) ==
  IF p = "anthropic" /\ cl.anthropicClient THEN AnthropicRequestParams(params, models)
  ELSE IF cl.openaiClient THEN OpenAIRequestParams(params, models)
  ELSE [NoRequest EXCEPT !.kind = "thrown", !.model = params.model]

\* the request that goes out for the history msgs: AnthropicClient.chatCompletion,
\* lines 251-270, puts the converted messages and the system field in it
SendRequest(requestParams, msgs) ==
  IF requestParams.kind = "anthropic"
  THEN [requestParams EXCEPT !.messages = convertToAnthropicMessages(msgs),
                             !.system = SystemField(msgs)]
  ELSE requestParams

\* ------------------------------------------------- the Agent: chat() frames
\* what chat()'s output sequence yields
TextFragment(text) == [type |-> "text", text |-> text, name |-> "", args |-> << >>]
\* `\n[Tool Call] ${name}(${displayArgs})\n${toolResult.content}\n`
Notice(name, args, content) ==
  [type |-> "notice", text |-> content, name |-> name, args |-> DisplayArgs(args)]
\* `\nError handling tool call: ${error.message}\n`
ToolErrorFragment(message) ==
  [type |-> "error", text |-> <<message>>, name |-> "", args |-> << >>]

\* a chat() call that has not been made
IdleFrame ==
  [pc |-> "idle", aborted |-> FALSE, abortedAt |-> "",
   numOfTurns |-> 0, nextTurnShouldCallTools |-> TRUE,
   responseText |-> << >>, hasToolCall |-> FALSE,
   activeToolCall |-> NoCall, toolCall |-> NoToolCall, events |-> 0,
   out |-> << >>, exit |-> "", requests |-> 0, dispatched |-> << >>, mark |-> 0,
   retryCount |-> 0, attempts |-> 0, waits |-> << >>, error |-> "", failures |-> 0,
   turnStart |-> 0, outStart |-> 0, wire |-> NoWire, streamError |-> "",
   lastSuccess |-> 0]

InFlight(c) == frame[c].pc \in {"request", "stream", "tool"}
Serialized == \A c \in Calls : ~InFlight(c)
\* the id of the tool call a provider opens next: ids are never reused
FreshId == used.events + 1

\* the checks without the turn cap
PostTurnNoCap(f, msgs) ==
  LET numOfTurns == f.numOfTurns + 1
      currentLast == msgs[Len(msgs)]
      g == [f EXCEPT !.numOfTurns = numOfTurns]
  IN  IF /\ currentLast.role = "tool"
         /\ currentLast.toolName \in ExitLoopToolNames
      THEN [g EXCEPT !.pc = "done", !.exit = "exitLoopTool"]
      ELSE IF currentLast.role # "tool" /\ f.nextTurnShouldCallTools
      THEN [g EXCEPT !.pc = "done", !.exit = "noToolCall"]
      ELSE [g EXCEPT !.pc = "request",
                     !.nextTurnShouldCallTools = (currentLast.role # "tool")]

\* the checks with the turn cap applied to every turn
PostTurnCapsAll(f, msgs) ==
  LET numOfTurns == f.numOfTurns + 1
      currentLast == msgs[Len(msgs)]
      g == [f EXCEPT !.numOfTurns = numOfTurns]
  IN  IF /\ currentLast.role = "tool"
         /\ currentLast.toolName \in ExitLoopToolNames
      THEN [g EXCEPT !.pc = "done", !.exit = "exitLoopTool"]
      ELSE IF numOfTurns > MAX_NUM_TURNS
      THEN [g EXCEPT !.pc = "done", !.exit = "maxTurns"]
      ELSE IF currentLast.role # "tool" /\ f.nextTurnShouldCallTools
      THEN [g EXCEPT !.pc = "done", !.exit = "noToolCall"]
      ELSE [g EXCEPT !.pc = "request",
                     !.nextTurnShouldCallTools = (currentLast.role # "tool")]

\* the checks without the stop on a missing tool call: the loop re-prompts
PostTurnReprompts(f, msgs) ==
  LET numOfTurns == f.numOfTurns + 1
      currentLast == msgs[Len(msgs)]
      g == [f EXCEPT !.numOfTurns = numOfTurns]
  IN  IF /\ currentLast.role = "tool"
         /\ currentLast.toolName \in ExitLoopToolNames
      THEN [g EXCEPT !.pc = "done", !.exit = "exitLoopTool"]
      ELSE IF currentLast.role # "tool" /\ numOfTurns > MAX_NUM_TURNS
      THEN [g EXCEPT !.pc = "done", !.exit = "maxTurns"]
      ELSE [g EXCEPT !.pc = "request",
                     !.nextTurnShouldCallTools = (currentLast.role # "tool")]

\* the checks with the expectation of a tool call left as it was
PostTurnKeepsFlag(f, msgs) ==
  LET numOfTurns == f.numOfTurns + 1
      currentLast == msgs[Len(msgs)]
      g == [f EXCEPT !.numOfTurns = numOfTurns]
  IN  IF /\ currentLast.role = "tool"
         /\ currentLast.toolName \in ExitLoopToolNames
      THEN [g EXCEPT !.pc = "done", !.exit = "exitLoopTool"]
      ELSE IF currentLast.role # "tool" /\ numOfTurns > MAX_NUM_TURNS
      THEN [g EXCEPT !.pc = "done", !.exit = "maxTurns"]
      ELSE IF currentLast.role # "tool" /\ f.nextTurnShouldCallTools
      THEN [g EXCEPT !.pc = "done", !.exit = "noToolCall"]
      ELSE [g EXCEPT !.pc = "request"]

\* the checks with a tool call expected after every turn
PostTurnExpectsTools(f, msgs) ==
  LET numOfTurns == f.numOfTurns + 1
      currentLast == msgs[Len(msgs)]
      g == [f EXCEPT !.numOfTurns = numOfTurns]
  IN  IF /\ currentLast.role = "tool"
         /\ currentLast.toolName \in ExitLoopToolNames
      THEN [g EXCEPT !.pc = "done", !.exit = "exitLoopTool"]
      ELSE IF currentLast.role # "tool" /\ numOfTurns > MAX_NUM_TURNS
      THEN [g EXCEPT !.pc = "done", !.exit = "maxTurns"]
      ELSE IF currentLast.role # "tool"
      THEN [g EXCEPT !.pc = "done", !.exit = "noToolCall"]
      ELSE [g EXCEPT !.pc = "request", !.nextTurnShouldCallTools = TRUE]

\* the checks without the control-flow tools
PostTurnNoExitTools(f, msgs) ==
  LET numOfTurns == f.numOfTurns + 1
      currentLast == msgs[Len(msgs)]
      g == [f EXCEPT !.numOfTurns = numOfTurns]
  IN  IF currentLast.role # "tool" /\ numOfTurns > MAX_NUM_TURNS
      THEN [g EXCEPT !.pc = "done", !.exit = "maxTurns"]
      ELSE IF currentLast.role # "tool" /\ f.nextTurnShouldCallTools
      THEN [g EXCEPT !.pc = "done", !.exit = "noToolCall"]
      ELSE [g EXCEPT !.pc = "request",
                     !.nextTurnShouldCallTools = (currentLast.role # "tool")]

\* conversationLoop, lines 149-179: the checks after a completed turn
PostTurn(f, msgs) ==
  LET numOfTurns == f.numOfTurns + 1
      currentLast == msgs[Len(msgs)]
      g == [f EXCEPT !.numOfTurns = numOfTurns]
  IN  IF /\ currentLast.role = "tool"
         /\ currentLast.toolName \notin {Undefined, ""}
         /\ currentLast.toolName \in ExitLoopToolNames
      THEN [g EXCEPT !.pc = "done", !.exit = "exitLoopTool"]
      ELSE IF currentLast.role # "tool" /\ numOfTurns > MAX_NUM_TURNS
      THEN [g EXCEPT !.pc = "done", !.exit = "maxTurns"]
      ELSE IF currentLast.role # "tool" /\ f.nextTurnShouldCallTools
      THEN [g EXCEPT !.pc = "done", !.exit = "noToolCall"]
      ELSE [g EXCEPT !.pc = "request",
                     !.nextTurnShouldCallTools = (currentLast.role # "tool")]

\* every error thrown out of processTurn is thrown on
CatchRethrows(f, message) ==
  [f EXCEPT !.pc = "done", !.exit = "thrown", !.error = message]

\* conversationLoop, lines 142-147: an error thrown out of processTurn
Catch(f, message) ==
  IF message = AbortError
  THEN [f EXCEPT !.pc = "done", !.exit = "abort", !.error = message]
  ELSE [f EXCEPT !.pc = "done", !.exit = "thrown", !.error = message]

\* one more attempt at the request of the turn: the first attempt is the call
\* of chatCompletion
Attempt(f) ==
  IF f.retryCount = 0
  THEN [f EXCEPT !.requests = @ + 1, !.attempts = 1, !.waits = << >>, !.error = ""]
  ELSE [f EXCEPT !.attempts = @ + 1, !.error = ""]

\* Math.pow(2, retryCount) * 1000 milliseconds, in seconds
WaitTime(retryCount) == 2 ^ retryCount

\* every request error is retried
RequestFailureRetriesAll(f, message) ==
  LET retryCount == f.retryCount + 1
  IN  IF retryCount < maxRetries
      THEN [f EXCEPT !.retryCount = retryCount, !.error = message,
                     !.waits = Append(@, WaitTime(retryCount))]
      ELSE Catch(f, message)

\* AnthropicClient.chatCompletion, lines 313-329: a failed attempt; the loop
\* waits and stays at the request, or the error is thrown
RequestFailure(f, message) ==
  IF message = "overloaded"
  THEN LET retryCount == f.retryCount + 1
       IN  IF retryCount < maxRetries
           THEN [f EXCEPT !.retryCount = retryCount, !.error = message,
                          !.waits = Append(@, WaitTime(retryCount))]
           ELSE Catch([f EXCEPT !.retryCount = retryCount], message)
  ELSE Catch(f, message)

\* the request is rejected: chatCompletion throws, on the Anthropic-style
\* provider after its retry loop
Rejected(p, f, message) ==
  IF p = "anthropic" THEN RequestFailure(f, message) ELSE Catch(f, message)

\* a failure of callTool is thrown out of the turn
OnToolErrorThrows(f, message) == Catch([f EXCEPT !.failures = @ + 1], message)

\* processTurn, lines 278-281: a failure of callTool is caught and yielded
OnToolError(f, message) ==
  [f EXCEPT !.pc = "stream", !.activeToolCall = NoCall, !.failures = @ + 1,
            !.out = Append(@, ToolErrorFragment(message))]

\* a text chunk is buffered without being forwarded
OnTextBuffered(f, text) == [f EXCEPT !.responseText = @ \o text]

\* processTurn, lines 282-290: a text chunk
OnText(f, text) ==
  [f EXCEPT !.responseText = @ \o text, !.out = Append(@, TextFragment(text))]

\* callTool is started without being awaited: the turn goes on reading
OnToolCallNoAwait(f, toolCall) ==
  [f EXCEPT !.hasToolCall = TRUE, !.toolCall = toolCall,
            !.dispatched = Append(@, [name |-> toolCall.name, args |-> toolCall.args])]

\* processTurn, lines 238-244: a tool_call chunk, up to the await of callTool
OnToolCall(f, toolCall) ==
  [f EXCEPT !.hasToolCall = TRUE, !.pc = "tool", !.toolCall = toolCall,
            !.dispatched = Append(@, [name |-> toolCall.name, args |-> toolCall.args])]

\* processTurn, lines 236-291: the chunks of one wire event, in order
RECURSIVE Consume(_, _)
Consume(f, chunks) ==
  IF chunks = << >> THEN f
  ELSE IF Head(chunks).type = "tool_call" THEN OnToolCall(f, Head(chunks).toolCall)
  ELSE Consume(OnText(f, Head(chunks).text), Tail(chunks))

\* the Assistant message of the turn overwrites the last message
AfterStreamOverwrites(f, msgs) ==
  IF ~f.hasToolCall
  THEN [msgs EXCEPT ![Len(msgs)] = AssistantMsg(f.responseText, << >>)]
  ELSE msgs

\* the Assistant message is appended after every turn
AfterStreamAlways(f, msgs) == Append(msgs, AssistantMsg(f.responseText, << >>))

\* processTurn, lines 293-299: the messages after the stream is exhausted
AfterStream(f, msgs) ==
  IF ~f.hasToolCall THEN Append(msgs, AssistantMsg(f.responseText, << >>)) ELSE msgs

\* the Assistant message is pushed without the text received so far
AfterToolNoText(f, msgs, content) ==
  msgs \o <<AssistantMsg(<< >>,
                         <<[id |-> f.toolCall.id, name |-> f.toolCall.name,
                            args |-> f.toolCall.args]>>),
            ToolMsg(content, f.toolCall.name, f.toolCall.id)>>

\* the Tool message is pushed before the Assistant message that made the call
AfterToolSwapped(f, msgs, content) ==
  msgs \o <<ToolMsg(content, f.toolCall.name, f.toolCall.id),
            AssistantMsg(f.responseText,
                         <<[id |-> f.toolCall.id, name |-> f.toolCall.name,
                            args |-> f.toolCall.args]>>)>>

\* only the Assistant message is pushed when callTool returns
AfterToolAssistantOnly(f, msgs, content) ==
  Append(msgs, AssistantMsg(f.responseText,
                            <<[id |-> f.toolCall.id, name |-> f.toolCall.name,
                               args |-> f.toolCall.args]>>))

\* processTurn, lines 246-263: the messages after callTool has returned
AfterTool(f, msgs, content) ==
  msgs \o <<AssistantMsg(f.responseText,
                         <<[id |-> f.toolCall.id, name |-> f.toolCall.name,
                            args |-> f.toolCall.args]>>),
            ToolMsg(content, f.toolCall.name, f.toolCall.id)>>

\* ------------------------------------------------- the simulated providers
ToolNames == {"search", taskCompletionTool, askQuestionTool}
ToolContents == {<<"result">>}
ToolFailures == {"tool failed"}
ProviderErrors == {"overloaded", "server error"}
Inputs == {<<"hi">>}

\* model ids, as characters
ModelIds == {<<"o", "4">>, <<"O", "4">>, <<"o", "x">>, <<"g", "p", "t">>}
\* Config.getDefaultModel()
DefaultModel == <<"g", "p", "t">>
Providers == {"openai", "anthropic", "openaiCompatible"}
ApiKeys == {"", "sk"}
BaseUrls == {"", "http://host"}

\* the ModelConfig entries of the configuration
ModelConfigs ==
  {[id |-> id, isReasoningModel |-> r, reasoningEffort |-> e,
    maxCompletionTokens |-> m, temperature |-> tk[1], maxTokens |-> tk[2]] :
     id \in {<<"o", "4">>, <<"g", "p", "t">>}, r \in BOOLEAN, e \in {"", "high"},
     m \in {0, 4096}, tk \in {<<None, None>>, <<Some(7), Some(1024)>>}}

\* the configurations the LlmClient can find
Configs ==
  [defaultProvider : Providers, openaiApiKey : ApiKeys, anthropicApiKey : ApiKeys,
   compatibleApiKey : ApiKeys, compatibleBaseUrl : BaseUrls, requiresApiKey : BOOLEAN,
   models : {<< >>} \cup {<<m>> : m \in ModelConfigs}]

\* LlmClientOptions; "" for a field that is not given
ClientOptions == [provider : {""} \cup Providers, apiKey : ApiKeys, baseURL : BaseUrls]

\* the configuration of an Agent whose LlmClient uses provider p
AgentConfig(p) ==
  [defaultProvider |-> p, openaiApiKey |-> "sk", anthropicApiKey |-> "sk",
   compatibleApiKey |-> "", compatibleBaseUrl |-> "", requiresApiKey |-> TRUE,
   models |-> << >>]

\* no list object was handed out
NoList == [state |-> "none", content |-> << >>]

\* OpenAI-style wire events: a text delta, a delta opening tool call `id`, the
\* closing event with or without a last argument fragment, and a delta that
\* opens a second tool call in slot 1
OpenAIEvents(id) ==
  {OpenAIEvent(<<"a">>, << >>, "")}
  \cup {OpenAIEvent(<< >>, <<ToolCallDelta(0, id, "search", a)>>, "") :
          a \in {<< >>, <<"{">>}}
  \cup {OpenAIEvent(<< >>, <<ToolCallDelta(0, 0, "", <<"{", "}">>)>>, "tool_calls"),
        OpenAIEvent(<< >>, << >>, "tool_calls")}
  \cup {OpenAIEvent(<< >>, <<ToolCallDelta(0, id, n, << >>)>>, "tool_calls") :
          n \in ToolNames}
  \cup {OpenAIEvent(<< >>, <<ToolCallDelta(1, id, "fetch", <<"[">>)>>, "")}

\* Anthropic-style wire events: a text delta, the start of tool_use block `id`
\* and a delta of the block's input JSON
AnthropicEvents(id) ==
  {AnthropicEvent("content_block_delta", <<"a">>, NoBlock, << >>),
   AnthropicInputDelta(<<"{", "}">>),
   AnthropicEvent("content_block_stop", << >>, NoBlock, << >>)}
  \cup {AnthropicEvent("content_block_start", << >>,
                       [type |-> "tool_use", id |-> id, name |-> n,
                        tool_use_input |-> << >>], << >>) : n \in ToolNames}

Events(id) == IF provider = "anthropic" THEN AnthropicEvents(id) ELSE OpenAIEvents(id)

\* the streams of a long conversation: each is one text delta or one complete
\* call of the "search" tool
LongEvents(id) ==
  IF provider = "anthropic"
  THEN {AnthropicEvent("content_block_delta", <<"a">>, NoBlock, << >>),
        AnthropicEvent("content_block_start", << >>,
                       [type |-> "tool_use", id |-> id, name |-> "search",
                        tool_use_input |-> << >>], << >>)}
  ELSE {OpenAIEvent(<<"a">>, << >>, ""),
        OpenAIEvent(<< >>, <<ToolCallDelta(0, id, "search", << >>)>>, "tool_calls")}

\* chat() is accepted only while no call is in flight
ChatAllowedWhenIdle == \A c \in Calls : frame[c].pc \notin {"request", "stream", "tool"}

\* chat(), lines 107-119, tests nothing before it appends the User message
\* and starts the loop
ChatAllowed == TRUE

\* ------------------------------------------------------------------ actions
\* Agent.chat(input, {abortSignal}): aborted says the signal is already set
Chat(c, input, aborted, maxCalls) ==
  /\ ~InFlight(c)
  /\ \A d \in Calls : d < c => InFlight(d)
  /\ used.chats < maxCalls
  /\ messages' = Append(messages, UserMsg(input))
  /\ frame' = [frame EXCEPT ![c] =
       [IdleFrame EXCEPT !.pc = "request", !.aborted = aborted,
                         !.abortedAt = IF aborted THEN "chat" ELSE "",
                         !.mark = Len(messages) + 1]]
  /\ latest' = c
  /\ used' = [used EXCEPT !.chats = @ + 1]
  /\ UNCHANGED <<llmVars, held, cfgGuidelines, optGuidelines>>

\* the caller sets the abort signal of a call in flight
Abort(c) ==
  /\ InFlight(c)
  /\ ~frame[c].aborted
  /\ frame' = [frame EXCEPT ![c].aborted = TRUE, ![c].abortedAt = frame[c].pc]
  /\ UNCHANGED <<llmVars, held, cfgGuidelines, optGuidelines, messages, latest, used>>

\* processTurn, line 229: chatCompletion returns a response stream; with the
\* signal set the request is rejected with the abort condition
Request(c, limit) ==
  /\ frame[c].pc = "request"
  /\ used.requests < limit
  /\ used' = [used EXCEPT !.requests = @ + 1]
  /\ request' = SendRequest(BuildRequest(provider, client,
                                         ChatParams(DefaultModel, config.models),
                                         config.models), messages)
  /\ LET f == Attempt(frame[c])
     IN  frame' = [frame EXCEPT ![c] =
           IF f.aborted THEN Rejected(provider, f, AbortError)
           ELSE [f EXCEPT !.pc = "stream", !.responseText = << >>,
                          !.hasToolCall = FALSE, !.activeToolCall = NoCall,
                          !.events = 0, !.retryCount = 0,
                          !.turnStart = Len(messages), !.outStart = Len(f.out),
                          !.wire = NoWire,
                          !.streamError = ""]]
  /\ UNCHANGED <<provider, config, client, held, cfgGuidelines, optGuidelines,
                 messages, latest>>

\* chatCompletion rejects with an error that is not a cancellation
RequestError(c, limit, message) ==
  /\ frame[c].pc = "request"
  /\ used.requests < limit
  /\ used' = [used EXCEPT !.requests = @ + 1]
  /\ ~frame[c].aborted
  /\ request' = SendRequest(BuildRequest(provider, client,
                                         ChatParams(DefaultModel, config.models),
                                         config.models), messages)
  /\ frame' = [frame EXCEPT ![c] = Rejected(provider, Attempt(@), message)]
  /\ UNCHANGED <<provider, config, client, held, cfgGuidelines, optGuidelines,
                 messages, latest>>

\* the response stream delivers one wire event
StreamEvent(c, event, maxEvents, perStream) ==
  /\ frame[c].pc = "stream"
  /\ ~frame[c].aborted
  /\ used.events < maxEvents
  /\ frame[c].events < perStream
  /\ used' = [used EXCEPT !.events = @ + 1]
  /\ LET f == frame[c]
         chunks == IF provider = "anthropic" THEN AnthropicChunks(event, FreshId)
                   ELSE OpenAIChunks(f.activeToolCall, event)
         active == IF provider = "anthropic" THEN NoCall
                   ELSE OpenAIActive(f.activeToolCall, event)
         wire == IF provider = "anthropic" THEN AnthropicWire(f.wire, event)
                 ELSE OpenAIWire(f.wire, event)
     IN  frame' = [frame EXCEPT ![c] =
           Consume([f EXCEPT !.activeToolCall = active, !.events = @ + 1,
                             !.wire = wire], chunks)]
  /\ UNCHANGED <<llmVars, held, cfgGuidelines, optGuidelines, messages, latest>>

\* the response stream ends: the turn completes
StreamEnd(c) ==
  /\ frame[c].pc = "stream"
  /\ ~frame[c].aborted
  /\ messages' = AfterStream(frame[c], messages)
  /\ frame' = [frame EXCEPT ![c] = PostTurn(frame[c], messages')]
  /\ UNCHANGED <<llmVars, held, cfgGuidelines, optGuidelines, latest, used>>

\* reading the response stream throws: the abort condition when the signal is
\* set, a provider error otherwise.  LlmClient.processStreamResponse lets it
\* through; AnthropicClient.processStreamResponse (lines 350-374) turns it
\* into a last text chunk
StreamThrow(c, message) ==
  /\ frame[c].pc = "stream"
  /\ frame[c].aborted <=> message = AbortError
  /\ IF provider = "anthropic"
     THEN LET f == OnText([frame[c] EXCEPT !.streamError = message],
                          AnthropicErrorText(message))
          IN  /\ messages' = AfterStream(f, messages)
              /\ frame' = [frame EXCEPT ![c] = PostTurn(f, messages')]
     ELSE /\ messages' = messages
          /\ frame' = [frame EXCEPT ![c] =
               Catch([frame[c] EXCEPT !.streamError = message], message)]
  /\ UNCHANGED <<llmVars, held, cfgGuidelines, optGuidelines, latest, used>>

\* callTool returns a result
ToolReturn(c, content) ==
  /\ frame[c].pc = "tool"
  /\ messages' = AfterTool(frame[c], messages, content)
  /\ frame' = [frame EXCEPT ![c] =
       [@ EXCEPT !.pc = "stream", !.activeToolCall = NoCall,
                 !.lastSuccess = frame[c].numOfTurns + 1,
                 !.out = Append(@, Notice(frame[c].toolCall.name,
                                          frame[c].toolCall.args, content))]]
  /\ UNCHANGED <<llmVars, held, cfgGuidelines, optGuidelines, latest, used>>

\* callTool fails
ToolFail(c, message) ==
  /\ frame[c].pc = "tool"
  /\ frame' = [frame EXCEPT ![c] = OnToolError(@, message)]
  /\ UNCHANGED <<llmVars, held, cfgGuidelines, optGuidelines, messages, latest, used>>

\* Agent.resetConversation(): this.messages is assigned a new list, so a list
\* object handed out before keeps what it held
Reset ==
  /\ messages' = ResetMessages(cfgGuidelines)
  /\ held' = IF held.state = "alias"
             THEN [state |-> "detached", content |-> messages] ELSE held
  /\ latest' = 0
  /\ UNCHANGED <<llmVars, cfgGuidelines, optGuidelines, frame, used>>

\* Agent.getConversation(): the caller holds this.messages itself
GetConversation ==
  /\ held.state # "alias"
  /\ held' = [state |-> "alias", content |-> << >>]
  /\ UNCHANGED <<llmVars, cfgGuidelines, optGuidelines, messages, frame, latest, used>>

\* new LlmClient(options)
Construct(options) ==
  /\ client.state = "new"
  /\ provider' = SelectProvider(options, config)
  /\ client' = NewLlmClient(options, config)
  /\ UNCHANGED <<config, request, held, cfgGuidelines, optGuidelines, messages,
                 frame, latest, used>>

\* LlmClient.chatCompletion with the parameters processTurn builds for model
ChatCompletion(model) ==
  /\ client.state = "constructed"
  /\ request' = SendRequest(BuildRequest(provider, client,
                                         ChatParams(model, config.models),
                                         config.models), messages)
  /\ UNCHANGED <<provider, config, client, held, cfgGuidelines, optGuidelines,
                 messages, frame, latest, used>>

\* --------------------------------------------------------- specifications
Init ==
  /\ provider \in {"openai", "anthropic"}
  /\ cfgGuidelines = <<"be brief">>
  /\ optGuidelines = << >>
  /\ messages = ConstructorMessages(optGuidelines, cfgGuidelines)
  /\ frame = [c \in Calls |-> IdleFrame]
  /\ latest = 0
  /\ used = [chats |-> 0, requests |-> 0, events |-> 0]
  /\ config = AgentConfig(provider)
  /\ client = NewLlmClient(NoOptions, config)
  /\ request = NoRequest
  /\ held = NoList

\* one Agent driven by serialized chat() calls, with cancellations, failures
\* and resets between the calls
Next ==
  \/ \E c \in Calls, input \in Inputs, aborted \in BOOLEAN :
       Serialized /\ Chat(c, input, aborted, MaxCalls)
  \/ \E c \in Calls : Abort(c)
  \/ \E c \in Calls : Request(c, MaxRequests)
  \/ \E c \in Calls, message \in ProviderErrors : RequestError(c, MaxRequests, message)
  \/ \E c \in Calls, event \in Events(FreshId) : StreamEvent(c, event, MaxEvents, MaxEvents)
  \/ \E c \in Calls : StreamEnd(c)
  \/ \E c \in Calls, message \in ProviderErrors \cup {AbortError} : StreamThrow(c, message)
  \/ \E c \in Calls, content \in ToolContents : ToolReturn(c, content)
  \/ \E c \in Calls, message \in ToolFailures : ToolFail(c, message)
  \/ Serialized /\ Reset

Spec == Init /\ [][Next]_vars

\* one chat() call of many turns, every stream one text delta or one tool
\* call; the tool calls succeed, or fail once the turn cap is reached
NextLong ==
  \/ \E c \in Calls, input \in Inputs : Serialized /\ Chat(c, input, FALSE, 1)
  \/ \E c \in Calls : Request(c, MaxLongRequests)
  \/ \E c \in Calls, event \in LongEvents(FreshId) :
       StreamEvent(c, event, MaxLongRequests, 1)
  \/ \E c \in Calls : StreamEnd(c)
  \/ \E c \in Calls, content \in ToolContents : ToolReturn(c, content)
  \/ \E c \in Calls, message \in ToolFailures :
       frame[c].numOfTurns >= MAX_NUM_TURNS /\ ToolFail(c, message)

SpecLong == Init /\ [][NextLong]_vars

\* an LlmClient under every configuration: its construction and the requests
\* it builds
InitClient ==
  /\ provider = "openai"
  /\ config \in Configs
  /\ client = NoClient
  /\ request = NoRequest
  /\ cfgGuidelines = << >>
  /\ optGuidelines = << >>
  /\ messages = ConstructorMessages(optGuidelines, cfgGuidelines)
  /\ frame = [c \in Calls |-> IdleFrame]
  /\ latest = 0
  /\ used = [chats |-> 0, requests |-> 0, events |-> 0]
  /\ held = NoList

NextClient ==
  \/ \E options \in ClientOptions : Construct(options)
  \/ \E model \in ModelIds : ChatCompletion(model)

SpecClient == InitClient /\ [][NextClient]_vars

\* an Agent with or without guidelines, from the configuration or from the
\* constructor options, whose history is handed out and reset between calls
InitReset ==
  /\ provider \in {"openai", "anthropic"}
  /\ cfgGuidelines \in {<< >>, <<"be brief">>}
  /\ optGuidelines \in {<< >>, <<"be formal">>}
  /\ messages = ConstructorMessages(optGuidelines, cfgGuidelines)
  /\ frame = [c \in Calls |-> IdleFrame]
  /\ latest = 0
  /\ used = [chats |-> 0, requests |-> 0, events |-> 0]
  /\ config = AgentConfig(provider)
  /\ client = NewLlmClient(NoOptions, config)
  /\ request = NoRequest
  /\ held = NoList

NextReset ==
  \/ \E c \in Calls, input \in Inputs : Serialized /\ Chat(c, input, FALSE, MaxCalls)
  \/ \E c \in Calls : Request(c, MaxRequests)
  \/ \E c \in Calls, event \in LongEvents(FreshId) :
       StreamEvent(c, event, MaxEvents, 1)
  \/ \E c \in Calls : StreamEnd(c)
  \/ \E c \in Calls, content \in ToolContents : ToolReturn(c, content)
  \/ GetConversation
  \/ Serialized /\ Reset

SpecReset == InitReset /\ [][NextReset]_vars

\* one Agent whose caller does not serialize: chat() and resetConversation()
\* are called while another call is in flight
NextConcurrent ==
  \/ \E c \in Calls, input \in Inputs : ChatAllowed /\ Chat(c, input, FALSE, MaxCalls)
  \/ \E c \in Calls : Request(c, MaxRequests)
  \/ \E c \in Calls, event \in LongEvents(FreshId) :
       StreamEvent(c, event, MaxEvents, 1)
  \/ \E c \in Calls : StreamEnd(c)
  \/ \E c \in Calls, content \in ToolContents : ToolReturn(c, content)
  \/ Reset

SpecConcurrent == Init /\ [][NextConcurrent]_vars

\* ------------------------------------------------------------------ claims
Last(seq) == seq[Len(seq)]
IsExitToolMsg(m) == m.role = "tool" /\ m.toolName \in ExitLoopToolNames
\* the messages appended since the User message of call c
Since(c) == SubSeq(messages, frame[c].mark + 1, Len(messages))
Roles(seq) == [i \in 1..Len(seq) |-> seq[i].role]

\* C1: in every reachable history, every Tool-role message is immediately
\* preceded by an Assistant message one of whose toolCalls has the Tool
\* message's toolCallId as its id.
C1_HistoryConsistent ==
  \A i \in 1..Len(messages) :
    messages[i].role = "tool" =>
      /\ i > 1
      /\ messages[i - 1].role = "assistant"
      /\ \E k \in 1..Len(messages[i - 1].toolCalls) :
           messages[i - 1].toolCalls[k].id = messages[i].toolCallId

\* a second chat() call has appended a Tool message to a history that holds
\* one from the first call
C1_Witness ==
  /\ used.chats = 2
  /\ Cardinality({i \in 1..Len(messages) : messages[i].role = "tool"}) >= 2

\* C2 as stated: when the loop has terminated after a turn whose last message
\* is not a Tool-role message, the call ran at most MAX_NUM_TURNS turns.
C2_Original ==
  \A c \in Calls :
    (frame[c].pc = "done" /\ frame[c].exit \in {"maxTurns", "noToolCall"}
       /\ Last(messages).role # "tool")
      => frame[c].requests <= MAX_NUM_TURNS

\* C2 as amended: the loop never goes on to another LLM request after a turn
\* whose last message is not a Tool-role message once the turn count exceeds
\* MAX_NUM_TURNS (the call itself may have run more turns than that).
C2_NoContinueOverCap ==
  \A c \in Calls :
    (frame[c].pc = "request" /\ Last(messages).role # "tool")
      => frame[c].numOfTurns <= MAX_NUM_TURNS

\* the cap has stopped the loop after a text turn that followed a tool turn
C2_Witness ==
  \E c \in Calls :
    /\ frame[c].exit = "maxTurns"
    /\ ~frame[c].nextTurnShouldCallTools
    /\ frame[c].requests = MAX_NUM_TURNS + 1

\* the history of a call whose first two turns each made a tool call that
\* succeeded and whose third turn was plain text
TwoToolsThenText(c) ==
  /\ latest = c
  /\ frame[c].numOfTurns = 3
  /\ Roles(Since(c)) = <<"assistant", "tool", "assistant", "tool", "assistant">>
  /\ ~IsExitToolMsg(Since(c)[2])
  /\ ~IsExitToolMsg(Since(c)[4])

C4_ExitToolStops ==
  \A c \in Calls :
    (latest = c /\ IsExitToolMsg(Last(messages)))
      => /\ ~(frame[c].pc = "request" /\ frame[c].numOfTurns > 0)
         /\ (frame[c].pc = "done" /\ frame[c].exit \notin {"abort", "thrown"})
              => (frame[c].exit = "exitLoopTool"
                  /\ frame[c].requests = frame[c].numOfTurns)

\* ask_question has ended a loop in which no tool call was expected
C4_Witness ==
  \E c \in Calls :
    /\ frame[c].pc = "done"
    /\ frame[c].exit = "exitLoopTool"
    /\ ~frame[c].nextTurnShouldCallTools
    /\ Last(messages).toolName = askQuestionTool

\* the Assistant and Tool messages processTurn appends for the tool call of
\* frame f when callTool returns content
ToolPair(f, content) ==
  <<AssistantMsg(f.responseText,
                 <<[id |-> f.toolCall.id, name |-> f.toolCall.name,
                    args |-> f.toolCall.args]>>),
    ToolMsg(content, f.toolCall.name, f.toolCall.id)>>

\* C5: a tool_call chunk makes the agent call callTool once, with the chunk's
\* name and decoded args; when callTool returns a result the agent appends one
\* Assistant message (the text so far, that single call) and right after it
\* one Tool message (the result, the tool's name, the call's id) and then
\* yields one notice with the tool name and the result text.
C5_ToolCallStep ==
  [][\A c \in Calls :
       /\ (frame[c].pc = "stream" /\ frame'[c].pc = "tool") =>
            /\ frame'[c].dispatched =
                 Append(frame[c].dispatched,
                        [name |-> frame'[c].toolCall.name,
                         args |-> frame'[c].toolCall.args])
            /\ messages' = messages
       /\ (frame[c].pc = "tool" /\ frame'[c].pc # "tool") =>
            /\ frame'[c].dispatched = frame[c].dispatched
            /\ \/ \E content \in ToolContents :
                    /\ messages' = messages \o ToolPair(frame[c], content)
                    /\ frame'[c].out =
                         Append(frame[c].out,
                                [type |-> "notice", text |-> content,
                                 name |-> frame[c].toolCall.name,
                                 args |-> frame[c].toolCall.args.text])
               \/ \E message \in ToolFailures :
                    /\ messages' = messages
                    /\ frame'[c].out =
                         Append(frame[c].out, ToolErrorFragment(message))
  ]_vars

\* a tool call made after some text has been recorded and announced
C5_Witness ==
  \E c \in Calls :
    /\ frame[c].pc = "stream"
    /\ Len(frame[c].dispatched) = 1
    /\ Len(Since(c)) = 2
    /\ Since(c)[1].content = <<"a">>
    /\ Since(c)[1].toolCalls[1].id = Since(c)[2].toolCallId
    /\ Since(c)[2].role = "tool"
    /\ Last(frame[c].out).type = "notice"

\* C6: a chat() call made with an abort signal that is already set returns
\* having appended no message beyond its User message and having yielded
\* nothing, on every provider: its one request is rejected and the loop
\* returns silently.
C6_AlreadyCancelled ==
  \A c \in Calls :
    (latest = c /\ frame[c].abortedAt = "chat") =>
      /\ Len(messages) = frame[c].mark
      /\ Last(messages).role = "user"
      /\ frame[c].out = << >>
      /\ frame[c].pc \in {"request", "done"}
      /\ frame[c].pc = "done" => (frame[c].exit = "abort" /\ frame[c].requests = 1)

\* such a call has returned on the Anthropic-style provider
C6_Witness ==
  \E c \in Calls :
    /\ provider = "anthropic"
    /\ latest = c
    /\ frame[c].abortedAt = "chat"
    /\ frame[c].pc = "done"

\* C7 as stated: once a chat() call is cancelled, whether the request is being
\* issued or the stream consumed, on either provider, the loop terminates at
\* once and silently: no further turn is started, no error text for the
\* cancellation reaches the caller and chat() does not fail with an error.
C7_SilentCancellation ==
  \A c \in Calls :
    frame[c].aborted =>
      /\ \A i \in 1..Len(frame[c].out) :
           frame[c].out[i] # TextFragment(AnthropicErrorText(AbortError))
      /\ frame[c].exit # "thrown"
      /\ frame[c].abortedAt = "stream" =>
           (frame[c].pc \in {"stream", "done"}
            /\ (frame[c].pc = "done" => frame[c].exit = "abort"))

\* C8 as stated: once the signal is set while a turn's stream is in flight, no
\* message is appended to the history for the interrupted turn.
C8_NoMessageForInterruptedTurn ==
  [][\A c \in Calls :
       (frame[c].pc = "stream" /\ frame[c].aborted) => messages' = messages
  ]_vars

\* C9 as stated: once the signal is set while a tool call is executing, no
\* Assistant/Tool pair is appended for that call and nothing is yielded for it.
C9_NoPairForInterruptedTool ==
  [][\A c \in Calls :
       (frame[c].pc = "tool" /\ frame[c].aborted) =>
         (messages' = messages /\ frame'[c].out = frame[c].out)
  ]_vars

\* C10: when the argument text buffered for a tool call is not valid JSON, the
\* tool_call chunk carries the raw buffered string as its args, callTool is
\* called with that string, the turn does not fail, and the Assistant message
\* appended for the call records the raw string as the call's args.
C10_RawArguments ==
  [][\A c \in Calls :
       (/\ provider # "anthropic"
        /\ frame[c].pc = "tool"
        /\ frame[c].activeToolCall.args \notin JsonTexts) =>
         LET raw == ArgString(frame[c].activeToolCall.args)
         IN  /\ frame[c].toolCall.args = raw
             /\ Last(frame[c].dispatched).args = raw
             /\ frame'[c].pc \in {"tool", "stream"}
             /\ messages' # messages =>
                  /\ Len(messages') = Len(messages) + 2
                  /\ messages'[Len(messages') - 1].role = "assistant"
                  /\ messages'[Len(messages') - 1].toolCalls[1].args = raw
  ]_vars

\* the history records a tool call whose args are the raw string "{{"
C10_Witness ==
  \E i \in 1..Len(messages) :
    /\ messages[i].role = "assistant"
    /\ Len(messages[i].toolCalls) = 1
    /\ messages[i].toolCalls[1].args = ArgString(<<"{", "{">>)

\* C11: when callTool fails for a tool_call chunk the failure is caught inside
\* the turn: one error fragment is yielded, no message is appended for the
\* call, the turn goes on reading its stream and then reaches the post-turn
\* checks, and the failure does not make chat() fail.
C11_ToolFailureCaught ==
  [][\A c \in Calls :
       /\ frame'[c].failures = frame[c].failures + 1 =>
            /\ frame[c].pc = "tool"
            /\ frame'[c].pc = "stream"
            /\ frame'[c].exit = ""
            /\ messages' = messages
            /\ \E message \in ToolFailures :
                 frame'[c].out = Append(frame[c].out, ToolErrorFragment(message))
       /\ (/\ frame[c].failures > 0
           /\ frame[c].pc = "stream"
           /\ frame'[c].pc \notin {"stream", "tool"}) =>
            \/ frame'[c].numOfTurns = frame[c].numOfTurns + 1
            \/ /\ frame'[c].exit \in {"thrown", "abort"}
               /\ frame'[c].error \notin ToolFailures
  ]_vars

\* after a failed tool call the turn has read a further text chunk and ended
\* in the post-turn checks, with nothing appended for the call
C11_Witness ==
  \E c \in Calls :
    /\ latest = c
    /\ frame[c].failures = 1
    /\ frame[c].numOfTurns = 1
    /\ frame[c].exit = "noToolCall"
    /\ Len(frame[c].out) = 2
    /\ frame[c].out[1].type = "error"
    /\ frame[c].out[2].type = "text"
    /\ Len(Since(c)) = 0

\* the history of a call all of whose turns so far ended with the Tool
\* message of a call that succeeded
OnlyToolTurns(c) ==
  /\ latest = c
  /\ frame[c].numOfTurns > 0
  /\ Len(Since(c)) = 2 * frame[c].numOfTurns
  /\ \A i \in 1..Len(Since(c)) :
       /\ Since(c)[i].role = IF i % 2 = 1 THEN "assistant" ELSE "tool"
       /\ ~IsExitToolMsg(Since(c)[i])

\* C13: the turn cap does not apply to tool-calling turns: a call every turn
\* of which ends with the Tool message of a tool that is not a control-flow
\* tool is never stopped, whatever its number of turns, and so runs more than
\* MAX_NUM_TURNS turns.
C13_ToolTurnsExempt ==
  \A c \in Calls :
    OnlyToolTurns(c) => (frame[c].pc \in {"request", "stream", "tool"} /\ frame[c].exit = "")

\* a call has completed more than MAX_NUM_TURNS tool-calling turns and is
\* about to issue another request
C13_Witness ==
  \E c \in Calls :
    /\ OnlyToolTurns(c)
    /\ frame[c].numOfTurns > MAX_NUM_TURNS + 1
    /\ frame[c].pc = "request"

\* C12 as stated: for a model whose ModelConfig has isReasoningModel true and
\* a reasoningEffort E, every OpenAI-style request built for it carries a
\* reasoning effort equal to E and a completion-token cap, and carries no
\* temperature.
C12_ReasoningRequest ==
  LET i == FindModel(config.models, request.model)
  IN  (/\ request.kind = "openai"
       /\ i # 0
       /\ config.models[i].isReasoningModel
       /\ config.models[i].reasoningEffort # "") =>
        /\ request.reasoning_effort = config.models[i].reasoningEffort
        /\ request.max_completion_tokens # 0
        /\ request.temperature = None

\* C14: constructing the LLM client throws exactly when what the selected
\* provider requires is missing (the API key for openai and anthropic; the
\* base URL for openaiCompatible, and its API key unless requiresApiKey is
\* false); a constructed client holds the client of its provider, so no
\* chatCompletion fails for a missing client.
C14_FailFast ==
  LET o == client.options
      Key(configured) == IF o.apiKey # "" THEN o.apiKey ELSE configured
      baseURL == IF o.baseURL # "" THEN o.baseURL ELSE config.compatibleBaseUrl
      missing ==
        CASE provider = "anthropic" -> Key(config.anthropicApiKey) = ""
          [] provider = "openaiCompatible" ->
               \/ baseURL = ""
               \/ config.requiresApiKey /\ Key(config.compatibleApiKey) = ""
          [] OTHER -> Key(config.openaiApiKey) = ""
  IN  /\ client.state = "thrown" =>
           (missing /\ client.error # "" /\ request = NoRequest)
      /\ client.state = "constructed" =>
           /\ ~missing
           /\ client.apiKey # ""
           /\ IF provider = "anthropic" THEN client.anthropicClient
              ELSE client.openaiClient
           /\ request.kind # "thrown"

\* a client for an OpenAI-compatible endpoint that needs no API key was
\* constructed without one and has built a request
C14_Witness ==
  /\ client.state = "constructed"
  /\ provider = "openaiCompatible"
  /\ ~config.requiresApiKey
  /\ config.compatibleApiKey = ""
  /\ client.options.apiKey = ""
  /\ request.kind = "openai"

\* C15 as stated: an Anthropic-style request that fails with the overloaded
\* condition is retried up to 3 times, after waits of 2, 4 and 8 seconds, so
\* the overloaded error ends a call only after the third retry; a request
\* that succeeds ends the retrying.
C15_ThreeRetries ==
  \A c \in Calls :
    provider = "anthropic" =>
      /\ \A i \in 1..Len(frame[c].waits) : frame[c].waits[i] = 2 ^ i
      /\ frame[c].pc \in {"stream", "tool"} => frame[c].retryCount = 0
      /\ (frame[c].exit = "thrown" /\ frame[c].error = "overloaded") =>
           frame[c].waits = <<2, 4, 8>>

\* C16 as stated: an error of the Anthropic-style request, overloaded after
\* the retries or any other, reaches the caller as error text and chat() does
\* not fail with a thrown error.
C16_RequestErrorAsText ==
  \A c \in Calls :
    (provider = "anthropic" /\ frame[c].error \in ProviderErrors /\ frame[c].pc = "done") =>
      /\ frame[c].exit # "thrown"
      /\ frame[c].out # << >>
      /\ Last(frame[c].out).type = "text"

\* C17: an Anthropic-style request error that is not the overloaded condition
\* is never retried: it is thrown at once, with no wait and no attempt after
\* it, so a request that fails with it at its first attempt is attempted once.
C17_NoRetryOfOtherErrors ==
  \A c \in Calls :
    (provider = "anthropic" /\ frame[c].error \notin {"", "overloaded"}) =>
      /\ frame[c].pc = "done"
      /\ frame[c].exit = IF frame[c].error = AbortError THEN "abort" ELSE "thrown"
      /\ frame[c].attempts = Len(frame[c].waits) + 1
      /\ \A i \in 1..Len(frame[c].waits) : frame[c].waits[i] = 2 ^ i

\* a request has failed with a server error at its first attempt and the
\* call has ended with that error after one attempt
C17_Witness ==
  \E c \in Calls :
    /\ provider = "anthropic"
    /\ frame[c].error = "server error"
    /\ frame[c].exit = "thrown"
    /\ frame[c].attempts = 1
    /\ frame[c].waits = << >>

\* C18 as stated: resetConversation() replaces the whole history with exactly
\* the system-prompt message, followed by the user-guidelines message when
\* guidelines exist, and leaves the list object that held the history before
\* the reset as it was.
C18_ResetReplacesHistory ==
  [][(latest # 0 /\ latest' = 0) =>
       LET existing == {optGuidelines, cfgGuidelines} \ {<< >>}
       IN  /\ messages'[1] = SystemMsg(DEFAULT_SYSTEM_PROMPT)
           /\ IF existing = {} THEN Len(messages') = 1
              ELSE /\ Len(messages') = 2
                   /\ messages'[2] \in {GuidelinesMsg(g) : g \in existing}
           /\ held.state = "alias" =>
                held' = [state |-> "detached", content |-> messages]
           /\ held.state # "alias" => held' = held
  ]_vars

IsPrefix(s, t) == Len(s) <= Len(t) /\ SubSeq(t, 1, Len(s)) = s

\* C19: between resets the history is append-only: whatever the agent does
\* (chat(), a turn, a tool dispatch, a failure, a cancellation), the history
\* before the step is a prefix of the history after it; only a reset
\* replaces it.
C19_AppendOnly ==
  [][\/ IsPrefix(messages, messages')
     \/ /\ messages' = ResetMessages(cfgGuidelines)
        /\ latest' = 0
        /\ frame' = frame
        /\ used' = used
  ]_vars

\* a second chat() call has appended the messages of a turn behind those of
\* a first call that ended with an error or a cancellation
C19_Witness ==
  \E c \in Calls :
    /\ latest = c
    /\ used.chats = 2
    /\ frame[c].mark > Len(ResetMessages(cfgGuidelines)) + 1
    /\ Len(Since(c)) >= 1
    /\ frame[c].pc = "done"

\* C20: a text chunk is forwarded to the caller in the step in which it is
\* received, while the turn is still reading its stream and before any
\* message is appended for it; what chat() has yielded only ever grows at its
\* end, one fragment per chunk, so the fragments keep the order of arrival.
C20_LiveInOrder ==
  [][\A c \in Calls :
       (InFlight(c) /\ frame'[c].mark = frame[c].mark) =>
         /\ IsPrefix(frame[c].out, frame'[c].out)
         /\ Len(frame'[c].out) <= Len(frame[c].out) + 1
         /\ (/\ frame[c].pc = "stream"
             /\ frame'[c].pc \in {"stream", "tool"}
             /\ frame'[c].responseText # frame[c].responseText) =>
              /\ messages' = messages
              /\ \E i \in 1..Len(frame'[c].responseText) :
                   LET text == SubSeq(frame'[c].responseText, i,
                                      Len(frame'[c].responseText))
                   IN  /\ frame'[c].responseText = frame[c].responseText \o text
                       /\ frame'[c].out = Append(frame[c].out, TextFragment(text))
  ]_vars

\* a turn still reading its stream has yielded text, a tool-call notice and
\* text again
C20_Witness ==
  \E c \in Calls :
    /\ frame[c].pc = "stream"
    /\ Len(frame[c].out) = 3
    /\ frame[c].out[1].type = "text"
    /\ frame[c].out[2].type = "notice"
    /\ frame[c].out[3].type = "text"
    /\ Last(messages).role = "tool"

\* the tool calls of call c that were dispatched and have neither returned
\* nor failed
Outstanding(c) ==
  Len(frame[c].dispatched)
    - Cardinality({i \in 1..Len(frame[c].out) :
                     frame[c].out[i].type \in {"notice", "error"}})

\* C21: with serialized chat() calls at most one LLM request/stream or one
\* tool call is in flight: one call at a time is active, a dispatched tool
\* call is outstanding exactly while the turn waits for it, no stream event
\* is read and no request issued meanwhile, and the next request is issued
\* only after the stream is exhausted and the turn's messages are appended.
C21_OneInFlight ==
  [][/\ Cardinality({c \in Calls : frame'[c].pc \in {"request", "stream", "tool"}}) <= 1
     /\ \A c \in Calls :
          /\ Outstanding(c)' = IF frame'[c].pc = "tool" THEN 1 ELSE 0
          /\ (\E d \in Calls : frame[d].pc = "tool") => used' = used
          /\ (frame[c].pc = "stream" /\ frame'[c].pc = "request") =>
               /\ used' = used
               /\ \/ frame[c].hasToolCall
                  \/ Last(messages') = AssistantMsg(frame'[c].responseText, << >>)
          /\ frame'[c].requests > frame[c].requests =>
               (frame[c].pc = "request" /\ Outstanding(c) = 0)
  ]_vars

\* in a later turn of a call, a tool call is outstanding and the turn waits
\* for it
C21_Witness ==
  \E c \in Calls :
    /\ frame[c].pc = "tool"
    /\ frame[c].numOfTurns >= 1
    /\ Outstanding(c) = 1
    /\ Len(frame[c].dispatched) = 2

\* C22: nothing in the Agent prevents a chat() call while another call is in
\* flight: whenever a call is in flight, chat() can still be called, and it
\* appends its User message behind whatever is there.
C22_ConcurrentChatAccepted ==
  ((\E c \in Calls : InFlight(c)) /\ used.chats < MaxCalls) =>
    ENABLED (\E c \in Calls, input \in Inputs :
               ChatAllowed /\ Chat(c, input, FALSE, MaxCalls))

\* the history holds two User messages in a row, and behind the User message
\* of the second call, which has not yet issued a request, the Assistant and
\* Tool messages of the first
C22_Witness ==
  /\ frame[2].pc = "request"
  /\ frame[2].requests = 0
  /\ frame[1].pc = "stream"
  /\ frame[2].mark = frame[1].mark + 1
  /\ Len(messages) = frame[2].mark + 2
  /\ messages[frame[1].mark].role = "user"
  /\ messages[frame[2].mark].role = "user"
  /\ messages[frame[2].mark + 1].role = "assistant"
  /\ messages[frame[2].mark + 2].role = "tool"

\* C23: after a completed turn for which nextTurnShouldCallTools is set and
\* whose last message is not a Tool message the loop stops without another
\* request; the flag is set when chat() starts, so a call whose first turn is
\* plain text issues one LLM request and appends one Assistant message after
\* the User message.
C23_NoReprompt ==
  [][\A c \in Calls :
       /\ (/\ frame'[c].numOfTurns = frame[c].numOfTurns + 1
           /\ frame[c].nextTurnShouldCallTools
           /\ Last(messages').role # "tool") =>
            /\ frame'[c].pc = "done"
            /\ frame'[c].exit \in {"noToolCall", "maxTurns"}
            /\ used' = used
       /\ (/\ frame[c].numOfTurns = 0
           /\ frame'[c].numOfTurns = 1
           /\ ~frame[c].hasToolCall) =>
            /\ frame[c].nextTurnShouldCallTools
            /\ frame'[c].pc = "done"
            /\ frame'[c].requests = 1
            /\ Len(messages) = frame[c].mark
            /\ messages' = Append(messages, AssistantMsg(frame'[c].responseText, << >>))
  ]_vars

\* a call whose first turn was plain text has ended after one request with
\* one Assistant message behind its User message
C23_Witness ==
  \E c \in Calls :
    /\ latest = c
    /\ frame[c].pc = "done"
    /\ frame[c].exit = "noToolCall"
    /\ frame[c].requests = 1
    /\ Since(c) = <<AssistantMsg(<<"a">>, << >>)>>

\* C24: whenever the loop continues after a turn, nextTurnShouldCallTools is
\* true if the turn made no tool call and false if it made one; the loop
\* continues after a plain-text turn only when no tool call was expected of
\* it, so the turn after a plain-text turn expects a tool call and the loop
\* never continues past two plain-text turns in a row.
C24_FlagFollowsTurn ==
  [][\A c \in Calls :
       (frame'[c].numOfTurns = frame[c].numOfTurns + 1 /\ frame'[c].pc = "request") =>
         /\ frame'[c].nextTurnShouldCallTools = ~frame[c].hasToolCall
         /\ ~frame[c].hasToolCall => ~frame[c].nextTurnShouldCallTools
  ]_vars

\* the loop has continued after a plain-text turn that followed a tool turn,
\* and expects a tool call
C24_Witness ==
  \E c \in Calls :
    /\ latest = c
    /\ frame[c].pc = "request"
    /\ frame[c].numOfTurns = 2
    /\ frame[c].nextTurnShouldCallTools
    /\ Roles(Since(c)) = <<"assistant", "tool", "assistant">>

\* C25: a turn whose tool dispatch failed before any message was appended is
\* treated by the checks after the turn as a turn without a tool call, also
\* when the last message is a Tool message left by an earlier turn: the loop
\* stops if a tool call was expected, and it stops once the turn cap is passed.
C25_FailedDispatchIsNoToolCall ==
  [][\A c \in Calls :
       (/\ frame'[c].numOfTurns = frame[c].numOfTurns + 1
        /\ frame[c].hasToolCall
        /\ frame[c].failures > 0
        /\ Len(messages') = frame[c].turnStart) =>
         /\ frame[c].nextTurnShouldCallTools => frame'[c].pc = "done"
         /\ frame'[c].numOfTurns > MAX_NUM_TURNS => frame'[c].pc = "done"
  ]_vars

\* C26: a tool_call chunk that names task_complete or ask_question is never
\* dispatched to callTool.
C26_ControlToolsNotDispatched ==
  \A c \in Calls :
    \A i \in 1..Len(frame[c].dispatched) :
      frame[c].dispatched[i].name \notin ExitLoopToolNames

\* C27: on an OpenAI-style stream a tool_call chunk is emitted only at the
\* event whose finish reason is the tool invocation, and its argument text is
\* the concatenation, in order, of the argument fragments delivered for that
\* tool call, each counted once, the fragment of the opening delta included.
C27_OpenAIArgumentsOnce ==
  provider # "anthropic" =>
    \A c \in Calls :
      frame[c].pc = "tool" =>
        /\ ~frame[c].wire.open
        /\ frame[c].toolCall.args.text = frame[c].wire.delivered

\* C28: on an Anthropic-style stream a tool_call chunk is emitted only once
\* the provider has delivered the complete tool call, and it carries the
\* call's full input; none is emitted while the arguments are still streamed.
C28_AnthropicCompleteCall ==
  provider = "anthropic" =>
    \A c \in Calls :
      frame[c].pc = "tool" =>
        /\ ~frame[c].wire.open
        /\ ParseArgs(frame[c].wire.delivered) = frame[c].toolCall.args

\* C29: when reading the response stream fails with an error that is not a
\* cancellation, on either provider, the caller receives the error as one
\* more text fragment, the call does not fail, and the turn ends with no
\* Assistant message appended to the history.
C29_StreamErrorInline ==
  [][\A c \in Calls :
       (/\ frame[c].pc = "stream"
        /\ frame[c].streamError = ""
        /\ frame'[c].streamError \in ProviderErrors) =>
         /\ Len(frame'[c].out) = Len(frame[c].out) + 1
         /\ Last(frame'[c].out).type = "text"
         /\ frame'[c].pc # "stream"
         /\ frame'[c].exit # "thrown"
         /\ messages' = messages
  ]_vars

\* C30: a model is a reasoning model exactly when its id, in any case,
\* begins with "o" and a digit or its ModelConfig entry flags it.  An
\* OpenAI-style request for a reasoning model carries a reasoning effort,
\* "medium" when none was supplied, and neither temperature nor max_tokens;
\* a request for any other model carries neither a reasoning effort nor a
\* completion-token cap.
C30_ReasoningModelRequests ==
  request.kind \in {"openai", "anthropic"} =>
    LET id == ToLowerCase(request.model)
        i == FindModel(config.models, request.model)
        flagged == i # 0 /\ config.models[i].isReasoningModel
        reasoning == \/ Len(id) >= 2 /\ id[1] = "o" /\ id[2] \in Digits
                     \/ flagged
        supplied == IF flagged THEN config.models[i].reasoningEffort ELSE ""
    IN  /\ (request.kind = "openai" /\ reasoning) =>
              /\ request.reasoning_effort = IF supplied # "" THEN supplied ELSE "medium"
              /\ request.temperature = None
              /\ request.max_tokens = None
        /\ ~reasoning =>
              /\ request.reasoning_effort = ""
              /\ request.max_completion_tokens = 0

\* an OpenAI-style request was built for "O4", which has no ModelConfig entry,
\* and carries the default effort
C30_Witness ==
  /\ request.kind = "openai"
  /\ request.model = <<"O", "4">>
  /\ config.models = << >>
  /\ request.reasoning_effort = "medium"
  /\ request.temperature = None

TurnText(c) ==
  LET out == frame[c].out
      text[i \in frame[c].outStart..Len(out)] ==
        IF i = frame[c].outStart THEN << >>
        ELSE IF out[i].type = "text" THEN text[i - 1] \o out[i].text
        ELSE text[i - 1]
  IN  text[Len(out)]

\* C32: when the stream of a turn ends and the turn had no tool_call chunk,
\* one Assistant message without toolCalls is appended whose content is the
\* concatenation, in order, of the text chunks of the turn (the empty string
\* when there were none); when the turn had a tool_call chunk nothing is
\* appended at the end of the stream.
C32_TrailingAssistant ==
  [][\A c \in Calls :
       (frame[c].pc = "stream" /\ frame'[c].numOfTurns = frame[c].numOfTurns + 1) =>
         IF frame[c].hasToolCall
         THEN messages' = messages
         ELSE /\ messages' = Append(messages, Last(messages'))
              /\ Last(messages').role = "assistant"
              /\ Last(messages').toolCalls = << >>
              /\ Last(messages').content = TurnText(c)'
  ]_vars

\* a turn of two text chunks and no tool call has appended one Assistant
\* message holding both
C32_Witness ==
  \E c \in Calls :
    /\ latest = c
    /\ frame[c].pc = "done"
    /\ frame[c].numOfTurns = 1
    /\ Len(frame[c].out) = 2
    /\ Since(c) = <<AssistantMsg(<<"a", "a">>, << >>)>>

\* the positions of the Assistant messages of a history that carry toolCalls
Callers(msgs) ==
  {i \in 1..Len(msgs) : msgs[i].role = "assistant" /\ msgs[i].toolCalls # << >>}

\* C33: every Assistant message that carries toolCalls carries one call and
\* is immediately followed by a Tool message with the same call id and tool
\* name; the two are appended in one step, after callTool has returned, also
\* when another chat() call or a reset interleaves.
C33_PairAtomic ==
  [][/\ \A i \in Callers(messages') :
          /\ Len(messages'[i].toolCalls) = 1
          /\ i < Len(messages')
          /\ messages'[i + 1].role = "tool"
          /\ messages'[i + 1].toolCallId = messages'[i].toolCalls[1].id
          /\ messages'[i + 1].toolName = messages'[i].toolCalls[1].name
     /\ Cardinality(Callers(messages')) > Cardinality(Callers(messages)) =>
          /\ Len(messages') = Len(messages) + 2
          /\ SubSeq(messages', 1, Len(messages)) = messages
          /\ \E c \in Calls :
               /\ frame[c].pc = "tool"
               /\ frame'[c].pc = "stream"
               /\ messages'[Len(messages) + 1].toolCalls[1].id = frame[c].toolCall.id
  ]_vars

\* a pair was appended right behind the System messages, by a call whose
\* history was reset while its tool call was in flight, and another call has
\* appended its User message behind the pair
C33_Witness ==
  \E i \in Callers(messages) :
    /\ messages[i - 1].role = "system"
    /\ i + 2 = Len(messages)
    /\ messages[i + 1].role = "tool"
    /\ messages[i + 2].role = "user"
    /\ \E c \in Calls : frame[c].pc = "stream" /\ frame[c].mark > i

\* the contents of the Assistant messages of a history behind position
\* start, concatenated
AssistantText(msgs, start) ==
  LET text[i \in start..Len(msgs)] ==
        IF i = start THEN << >>
        ELSE IF msgs[i].role = "assistant" THEN text[i - 1] \o msgs[i].content
        ELSE text[i - 1]
  IN  text[Len(msgs)]

\* C34: every text fragment yielded during a turn is recorded in the history
\* once: when a turn that appended messages ends, the contents of the
\* Assistant messages it appended, concatenated, are the text chunks of the
\* turn, concatenated, also with text behind a tool_call chunk and with more
\* than one tool_call chunk in the turn.
C34_TextRecordedOnce ==
  [][\A c \in Calls :
       (/\ frame[c].pc = "stream"
        /\ frame'[c].numOfTurns = frame[c].numOfTurns + 1
        /\ Len(messages') > frame[c].turnStart) =>
         AssistantText(messages', frame[c].turnStart) = TurnText(c)'
  ]_vars

\* C35: once no tool dispatch succeeds any more, the loop ends within two
\* further turns: a call in flight has completed at most one turn since the
\* last turn in which a dispatch succeeded (lastSuccess, 0 when none did).
C35_EndsWithoutToolSuccess ==
  \A c \in Calls :
    InFlight(c) => frame[c].numOfTurns - frame[c].lastSuccess <= 1

\* C36: a chat() call that completed without an error and without a
\* cancellation has left at least one Assistant message behind its User
\* message.
C36_UserAnswered ==
  \A c \in Calls :
    (/\ latest = c
     /\ frame[c].pc = "done"
     /\ frame[c].exit \notin {"abort", "thrown"}) =>
      /\ messages[frame[c].mark].role = "user"
      /\ \E i \in 1..Len(Since(c)) : Since(c)[i].role = "assistant"

\* C37: after resetConversation() the history is the history the Agent had
\* right after its construction, also when the user guidelines came from the
\* constructor options.
C37_ResetRestoresConstruction ==
  [][Reset => messages' = ConstructorMessages(optGuidelines, cfgGuidelines)]_vars

\* a history of System messages only
OnlySystem(msgs) == \A i \in 1..Len(msgs) : msgs[i].role = "system"

\* C38: after resetConversation() the history holds only System messages
\* until chat() is called again, also when a chat() call was in flight at the
\* reset: a step that is not a call of chat() appends nothing to a history of
\* System messages.
C38_ResetStaysClean ==
  [][(used'.chats = used.chats /\ OnlySystem(messages)) => OnlySystem(messages')]_vars

\* C39: on an OpenAI-style stream the deltas of a tool-call slot other than
\* slot 0 change nothing of the tool_call chunk that is emitted: its id and
\* name are those delivered for slot 0 and its argument text is made of the
\* fragments delivered for slot 0 only.
C39_SlotsNotMerged ==
  provider # "anthropic" =>
    \A c \in Calls :
      frame[c].pc = "tool" =>
        /\ frame[c].toolCall.id = frame[c].wire.id
        /\ frame[c].toolCall.name = frame[c].wire.name
        /\ \A k \in 1..Len(frame[c].toolCall.args.text) :
             \E j \in 1..Len(frame[c].wire.delivered) :
               frame[c].toolCall.args.text[k] = frame[c].wire.delivered[j]

====
